---- MODULE Spec2Model ----
(***************************************************************************)
(* Model of the Azure AI Search sink of bytewax-azure-ai-search.           *)
(*                                                                         *)
(* Three variants of _AzureSearchPartition.write_batch live in the         *)
(* repository:                                                             *)
(*   "azure_ai_search"          src/bytewax/azure_ai_search/__init__.py     *)
(*   "bytewax_azure_ai_search"  src/bytewax/bytewax_azure_ai_search/...     *)
(*   "partition"                src/bytewax/bytewax-azure-ai-search/...     *)
(* and the azure_output pipeline maps validate_and_prepare over every      *)
(* collected batch before handing it to the bytewax_azure_ai_search sink.  *)
(*                                                                         *)
(* Python values are records [kind, s, elems]; a dict is the sequence of   *)
(* its items in insertion order; JSON text is the tree json.dumps writes.  *)
(***************************************************************************)
EXTENDS Integers, Sequences, FiniteSets, TLC

VARIABLES schema, batch, prepared, pc, impl, server, body, sent, log, ret, exc,
          sink, conn, endpoint, previous

vars == <<schema, batch, prepared, pc, impl, server, body, sent, log, ret, exc,
          sink, conn, endpoint, previous>>

(* ------------------------------ bounds -------------------------------- *)

MaxBatch == 3

MaxFailures == 3

MaxCallBatch == 2

(* --------------------------- Python values ---------------------------- *)

Str(x) == [kind |-> "str", s |-> x, elems |-> <<>>]

Num(x) == [kind |-> "num", s |-> x, elems |-> <<>>]

None == [kind |-> "none", s |-> "", elems |-> <<>>]

List(es) == [kind |-> "list", s |-> "", elems |-> es]

Tuple(es) == [kind |-> "tuple", s |-> "", elems |-> es]

\* a value json cannot write (a set, bytes, a datetime)
Obj == [kind |-> "object", s |-> "", elems |-> <<>>]

isinstance_list(value) == value.kind = "list"

isinstance_str(value) == value.kind = "str"

(* ------------------------------ dicts --------------------------------- *)

Item(k, v) == [k |-> k, v |-> v]

\* field_name in document
Has(d, name) == \E i \in DOMAIN d : d[i].k = name

\* document.get(field_name, default)
Get(d, name, default) ==
    IF Has(d, name) THEN d[CHOOSE i \in DOMAIN d : d[i].k = name].v ELSE default

\* d[name] = v : an existing key keeps its place, a new key goes last
Put(d, name, v) ==
    IF Has(d, name)
    THEN [i \in DOMAIN d |-> IF d[i].k = name THEN Item(name, v) ELSE d[i]]
    ELSE Append(d, Item(name, v))

Keys(d) == [i \in DOMAIN d |-> d[i].k]

(* ------------------------------ schemas ------------------------------- *)

Field(name, type, default) == [name |-> name, type |-> type, default |-> default]

\* the schema of the module docstring, shortened to one string field
SchemaDoc ==
    << Field("id", "string", None),
       Field("vector", "collection", List(<<>>)) >>

\* another declaration order, a collection under another name, an opaque type
SchemaAlt ==
    << Field("meta", "other", None),
       Field("embedding", "collection", List(<<>>)),
       Field("id", "string", Str("")) >>

Schemas == {SchemaDoc, SchemaAlt}

(* ----------------------------- documents ------------------------------ *)

DocFull ==
    << Item("id", Str("a")), Item("vector", List(<<Num("1"), Num("2")>>)) >>

DocNoVector == << Item("id", Str("b")) >>

DocVectorStr == << Item("id", Str("c")), Item("vector", Str("x")) >>

DocIdNum == << Item("id", Num("7")), Item("vector", List(<<Num("1")>>)) >>

DocListOfStr ==
    << Item("id", Str("e")), Item("vector", List(<<Str("s")>>)),
       Item("embedding", List(<<Str("s")>>)) >>

DocExtra ==
    << Item("id", Str("f")), Item("vector", List(<<Num("3")>>)),
       Item("extra", Str("z")) >>

DocTuple ==
    << Item("id", Str("g")), Item("vector", List(<<Tuple(<<Num("1")>>)>>)),
       Item("embedding", Str("bad")) >>

DocObj == << Item("id", Str("h")), Item("meta", Obj) >>

Documents ==
    {DocFull, DocNoVector, DocVectorStr, DocIdNum, DocListOfStr, DocExtra,
     DocTuple, DocObj}

RECURSIVE SeqsUpTo(_, _)
SeqsUpTo(S, n) ==
    IF n = 0 THEN {<<>>}
    ELSE LET shorter == SeqsUpTo(S, n - 1)
         IN  shorter \cup {Append(q, x) : q \in {p \in shorter : Len(p) = n - 1}, x \in S}

Batches == SeqsUpTo(Documents, MaxBatch)

\* the documents and batches of a partition that is handed batch after batch
CallDocuments == {DocFull, DocVectorStr, DocExtra}

CallBatches == SeqsUpTo(CallDocuments, MaxCallBatch)

(* --------------------- connection parameters -------------------------- *)

\* the four connection attributes of AzureSearchSink and of its partition
Connection ==
    [azure_search_service |-> "your-service-name", index_name |-> "your-index-name",
     search_api_version |-> "2024-07-01", search_admin_key |-> "your-api-key"]

\* the f-string search_endpoint
search_endpoint(c) ==
    [service |-> c.azure_search_service, index |-> c.index_name,
     api_version |-> c.search_api_version]

\* the headers dict
headers(c) == [content_type |-> "application/json", api_key |-> c.search_admin_key]

NoRequest ==
    [url |-> [service |-> "", index |-> "", api_version |-> ""],
     headers |-> [content_type |-> "", api_key |-> ""]]

NoPrevious == [batch |-> <<>>, failed |-> FALSE]

(* ---------------------------- the endpoint ---------------------------- *)

\* what the endpoint does with the k-th POST: it fails the first failFirst
\* requests the same way and answers 200 from then on
Servers ==
    {[failFirst |-> n, failKind |-> a] :
        n \in 1..MaxFailures, a \in {"400", "503", "ConnectionError"}}
    \cup {[failFirst |-> 0, failKind |-> "503"]}

NoServer == [failFirst |-> 0, failKind |-> "unset"]

requests_post(srv, k) == IF k <= srv.failFirst THEN srv.failKind ELSE "200"

\* response.text of an answer
response_text(answer) ==
    CASE answer = "200" -> "body-of-200"
      [] answer = "400" -> "body-of-400"
      [] answer = "503" -> "body-of-503"
      [] OTHER -> "unbound"

(* ------------------------------- json --------------------------------- *)

RECURSIVE Serializable(_)
Serializable(value) ==
    /\ value.kind # "object"
    /\ \A i \in DOMAIN value.elems : Serializable(value.elems[i])

\* json.dumps of one value: lists and tuples are both written as arrays
RECURSIVE dumps_value(_)
dumps_value(value) ==
    CASE value.kind = "str" -> [j |-> "string", s |-> value.s, elems |-> <<>>]
      [] value.kind = "num" -> [j |-> "number", s |-> value.s, elems |-> <<>>]
      [] value.kind = "none" -> [j |-> "null", s |-> "", elems |-> <<>>]
      [] OTHER -> [j |-> "array", s |-> "",
                   elems |-> [i \in DOMAIN value.elems |-> dumps_value(value.elems[i])]]

\* json.loads of one value: an array is read back as a list
RECURSIVE loads_value(_)
loads_value(text) ==
    CASE text.j = "string" -> Str(text.s)
      [] text.j = "number" -> Num(text.s)
      [] text.j = "null" -> None
      [] OTHER -> List([i \in DOMAIN text.elems |-> loads_value(text.elems[i])])

dumps_dict(d) == [i \in DOMAIN d |-> Item(d[i].k, dumps_value(d[i].v))]

loads_dict(o) == [i \in DOMAIN o |-> Item(o[i].k, loads_value(o[i].v))]

\* json.dumps({"value": docs}): TypeError when a value cannot be written
json_dumps(docs) ==
    IF \A i \in DOMAIN docs : \A m \in DOMAIN docs[i] : Serializable(docs[i][m].v)
    THEN [ok |-> TRUE, text |-> [i \in DOMAIN docs |-> dumps_dict(docs[i])]]
    ELSE [ok |-> FALSE, text |-> <<>>]

\* json.loads(body_json)["value"]
json_loads(text) == [i \in DOMAIN text |-> loads_dict(text[i])]

(* ------------------------------- logs --------------------------------- *)

\* one logger call: its level, its message, the text and the document it formats
LogLine(level, msg, text, doc) ==
    [level |-> level, msg |-> msg, text |-> text, doc |-> doc]

(* ---------------- azure_ai_search: validate_document ------------------ *)

\* the loop of validate_document from schema item i on: the first field of
\* the wrong type ends it; "" when every field passes
RECURSIVE first_bad_field(_, _, _)
first_bad_field(document, sch, i) ==
    IF i > Len(sch) THEN ""
    ELSE LET field_name == sch[i].name
             value == Get(document, field_name, None)
         IN  IF /\ Has(document, field_name)
                /\ \/ sch[i].type = "collection" /\ ~isinstance_list(value)
                   \/ sch[i].type = "string" /\ ~isinstance_str(value)
             THEN field_name
             ELSE first_bad_field(document, sch, i + 1)

\* mutant: a list must also hold numbers only
validate_document_numeric(document, sch) ==
    /\ first_bad_field(document, sch, 1) = ""
    /\ \A i \in DOMAIN sch :
          (sch[i].type = "collection" /\ Has(document, sch[i].name)) =>
             \A e \in DOMAIN Get(document, sch[i].name, None).elems :
                Get(document, sch[i].name, None).elems[e].kind = "num"

validate_document(document, sch) == first_bad_field(document, sch, 1) = ""

\* the logger.error of validate_document for a rejected document
validate_document_log(document, sch) ==
    IF validate_document(document, sch) THEN <<>>
    ELSE << LogLine("error", "should be", first_bad_field(document, sch, 1), <<>>) >>

(* ------------------- azure_ai_search: write_batch --------------------- *)

\* the value write_batch stores under field_name
field_value(document, field) ==
    IF field.name = "vector"
    THEN Get(document, field.name, Str(""))
    ELSE Get(document, field.name, field.default)

\* the inner loop: doc_body after schema items i..Len(sch)
RECURSIVE doc_body_from(_, _, _, _)
doc_body_from(document, sch, i, acc) ==
    IF i > Len(sch) THEN acc
    ELSE doc_body_from(document, sch, i + 1,
                       Put(acc, sch[i].name, field_value(document, sch[i])))

\* mutant: the document's own items are kept and the schema fields filled in
doc_body_passthrough(document, sch) ==
    doc_body_from(document, sch, 1,
                  << Item("@search.action", Str("upload")) >> \o document)

doc_body(document, sch) ==
    doc_body_from(document, sch, 1, << Item("@search.action", Str("upload")) >>)

\* mutant: break in place of continue, the first invalid document ends the loop
RECURSIVE documents_from_break(_, _, _, _)
documents_from_break(b, sch, i, acc) ==
    IF i > Len(b) THEN acc
    ELSE IF ~validate_document(b[i], sch)
    THEN [value |-> acc.value,
          log |-> acc.log \o validate_document_log(b[i], sch)
                    \o << LogLine("error", "Invalid document", "", b[i]) >>]
    ELSE documents_from_break(b, sch, i + 1,
            [value |-> Append(acc.value, doc_body(b[i], sch)), log |-> acc.log])

\* the outer loop: body["value"] and the log after documents i..Len(b)
RECURSIVE documents_from(_, _, _, _)
documents_from(b, sch, i, acc) ==
    IF i > Len(b) THEN acc
    ELSE IF ~validate_document(b[i], sch)
    THEN documents_from(b, sch, i + 1,
            [value |-> acc.value,
             log |-> acc.log \o validate_document_log(b[i], sch)
                       \o << LogLine("error", "Invalid document", "", b[i]) >>])
    ELSE documents_from(b, sch, i + 1,
            [value |-> Append(acc.value, doc_body(b[i], sch)), log |-> acc.log])

\* mutant: a 5xx answer or a transport error is retried, four attempts at most
RECURSIVE post_and_log_retry_from(_, _, _, _)
post_and_log_retry_from(body_json, srv, k, posted) ==
    LET answer == requests_post(srv, k)
    IN  IF answer = "200"
        THEN [sent |-> Append(posted, body_json), exc |-> "none",
              log |-> << LogLine("info", "Document uploaded successfully", "", <<>>) >>]
        ELSE IF answer \in {"503", "ConnectionError"} /\ k < 4
        THEN post_and_log_retry_from(body_json, srv, k + 1, Append(posted, body_json))
        ELSE IF answer = "ConnectionError"
        THEN [sent |-> Append(posted, body_json), exc |-> "UnboundLocalError",
              log |-> << LogLine("error", "Request error occurred", answer, <<>>) >>]
        ELSE [sent |-> Append(posted, body_json), exc |-> "none",
              log |-> << LogLine("error", "Request error occurred", answer, <<>>),
                         LogLine("error", "Response content", response_text(answer), <<>>) >>]

post_and_log_retry(body_json, srv) == post_and_log_retry_from(body_json, srv, 1, <<>>)

\* the try block: one requests.post, raise_for_status, and the two handlers'
\* log lines; on a transport error response is unbound when line 152 reads it
post_and_log(body_json, srv) ==
    LET answer == requests_post(srv, 1)
    IN  CASE answer = "200" ->
               [sent |-> << body_json >>, exc |-> "none",
                log |-> << LogLine("info", "Document uploaded successfully", "", <<>>) >>]
          [] answer \in {"400", "503"} ->
               [sent |-> << body_json >>, exc |-> "none",
                log |-> << LogLine("error", "Request error occurred", answer, <<>>),
                           LogLine("error", "Response content", response_text(answer), <<>>) >>]
          [] OTHER ->
               [sent |-> << body_json >>, exc |-> "UnboundLocalError",
                log |-> << LogLine("error", "Request error occurred", answer, <<>>) >>]

\* mutant: nothing is posted when no document is left to upload
write_batch_skip_empty(b, sch, srv) ==
    LET built == documents_from(b, sch, 1, [value |-> <<>>, log |-> <<>>])
        body_json == json_dumps(built.value)
    IN  IF ~body_json.ok
        THEN [body |-> built.value, sent |-> <<>>, log |-> built.log,
              ret |-> "unset", exc |-> "TypeError"]
        ELSE IF built.value = <<>>
        THEN [body |-> built.value, sent |-> <<>>, log |-> built.log,
              ret |-> "None", exc |-> "none"]
        ELSE LET posted == post_and_log(body_json.text, srv)
             IN  [body |-> built.value, sent |-> posted.sent,
                  log |-> built.log \o posted.log,
                  ret |-> IF posted.exc = "none" THEN "None" ELSE "unset",
                  exc |-> posted.exc]

write_batch(b, sch, srv) ==
    LET built == documents_from(b, sch, 1, [value |-> <<>>, log |-> <<>>])
        body_json == json_dumps(built.value)
    IN  IF ~body_json.ok
        THEN [body |-> built.value, sent |-> <<>>, log |-> built.log,
              ret |-> "unset", exc |-> "TypeError"]
        ELSE LET posted == post_and_log(body_json.text, srv)
             IN  [body |-> built.value, sent |-> posted.sent,
                  log |-> built.log \o posted.log,
                  ret |-> IF posted.exc = "none" THEN "None" ELSE "unset",
                  exc |-> posted.exc]

(* --------------- bytewax_azure_ai_search: write_batch ----------------- *)

\* the loop over the schema: body["value"][0] after schema items i..Len(sch)
RECURSIVE first_document_from(_, _, _, _)
first_document_from(document, sch, i, acc) ==
    IF i > Len(sch) THEN acc
    ELSE first_document_from(document, sch, i + 1,
             Put(acc, sch[i].name, Get(document, sch[i].name, sch[i].default)))

\* mutant: a fixed status in place of response.text
post_and_return_fixed(body_json, srv) ==
    LET answer == requests_post(srv, 1)
    IN  CASE answer = "200" ->
               [sent |-> << body_json >>, exc |-> "none", ret |-> "success",
                log |-> << LogLine("info", "Document uploaded successfully", "", <<>>) >>]
          [] answer \in {"400", "503"} ->
               [sent |-> << body_json >>, exc |-> "none", ret |-> "error",
                log |-> << LogLine("error", "Failed to upload document", "error", <<>>) >>]
          [] OTHER ->
               [sent |-> << body_json >>, exc |-> answer, ret |-> "unset", log |-> <<>>]

\* requests.post outside any try, then the status_code test
post_and_return(body_json, srv) ==
    LET answer == requests_post(srv, 1)
    IN  CASE answer = "200" ->
               [sent |-> << body_json >>, exc |-> "none", ret |-> "success",
                log |-> << LogLine("info", "Document uploaded successfully", "", <<>>) >>]
          [] answer \in {"400", "503"} ->
               [sent |-> << body_json >>, exc |-> "none", ret |-> response_text(answer),
                log |-> << LogLine("error", "Failed to upload document",
                                   response_text(answer), <<>>) >>]
          [] OTHER ->
               [sent |-> << body_json >>, exc |-> answer, ret |-> "unset", log |-> <<>>]

write_batch_bytewax_azure_ai_search(b, sch, srv) ==
    IF b = <<>>
    THEN [body |-> <<>>, sent |-> <<>>, log |-> <<>>, ret |-> "unset",
          exc |-> "IndexError"]
    ELSE LET value == << first_document_from(b[1], sch, 1,
                            << Item("@search.action", Str("upload")) >>) >>
             body_json == json_dumps(value)
         IN  IF ~body_json.ok
             THEN [body |-> value, sent |-> <<>>, log |-> <<>>, ret |-> "unset",
                   exc |-> "TypeError"]
             ELSE LET posted == post_and_return(body_json.text, srv)
                  IN  [body |-> value, sent |-> posted.sent, log |-> posted.log,
                       ret |-> posted.ret, exc |-> posted.exc]

\* an item of the stream _prepare_azure_batch emits: the tuple (key, batch)
KeyedItem(key, b) == [key |-> key, batch |-> b]

\* the same write_batch handed the items of that stream, as op.output does in
\* azure_output: batch[0] is a (key, batch) tuple, and the first pass of the
\* schema loop calls .get on it (AttributeError) with the entry half built
write_batch_of_keyed_items(items, sch, srv) ==
    IF items = <<>>
    THEN [body |-> <<>>, sent |-> <<>>, log |-> <<>>, ret |-> "unset",
          exc |-> "IndexError"]
    ELSE LET value == << << Item("@search.action", Str("upload")) >> >>
         IN  IF sch # <<>>
             THEN [body |-> value, sent |-> <<>>, log |-> <<>>, ret |-> "unset",
                   exc |-> "AttributeError"]
             ELSE LET posted == post_and_return(json_dumps(value).text, srv)
                  IN  [body |-> value, sent |-> posted.sent, log |-> posted.log,
                       ret |-> posted.ret, exc |-> posted.exc]

(* --------------- bytewax-azure-ai-search/partition.py ----------------- *)

\* the module imports json and requests only: building the headers reads
\* os.getenv and raises NameError before the batch is looked at
write_batch_partition(b) ==
    [body |-> <<>>, sent |-> <<>>, log |-> <<>>, ret |-> "unset", exc |-> "NameError"]

(* ------------------ operators.py: validate_and_prepare ---------------- *)

\* the inner loop: the document after schema items i..Len(sch)
RECURSIVE prepare_document_from(_, _, _)
prepare_document_from(document, sch, i) ==
    IF i > Len(sch) THEN document
    ELSE prepare_document_from(
             IF Has(document, sch[i].name) THEN document
             ELSE Put(document, sch[i].name, sch[i].default),
             sch, i + 1)

validate_and_prepare(b, sch) ==
    [i \in DOMAIN b |-> prepare_document_from(b[i], sch, 1)]

(* ------------------------------ actions ------------------------------- *)

Init ==
    /\ schema \in Schemas
    /\ batch \in Batches
    /\ prepared = FALSE
    /\ pc = "ready"
    /\ impl = "none"
    /\ server = NoServer
    /\ body = <<>>
    /\ sent = <<>>
    /\ log = <<>>
    /\ ret = "unset"
    /\ exc = "none"
    /\ conn = Connection
    /\ sink = [schema |-> schema, conn |-> conn]
    /\ endpoint = NoRequest
    /\ previous = NoPrevious

\* write_batch assigns no attribute of self: the partition keeps the schema and
\* the connection parameters build gave it
Finish(name, srv, r) ==
    /\ pc' = IF r.exc = "none" THEN "returned" ELSE "raised"
    /\ impl' = name
    /\ server' = srv
    /\ body' = r.body
    /\ sent' = r.sent
    /\ log' = r.log
    /\ ret' = r.ret
    /\ exc' = r.exc
    /\ endpoint' = IF r.sent # <<>>
                   THEN [url |-> search_endpoint(conn), headers |-> headers(conn)]
                   ELSE NoRequest
    /\ UNCHANGED <<schema, batch, prepared, sink, conn, previous>>

\* azure_output: the map step of _prepare_azure_batch on a collected batch
\* (collect emits only batches that hold a record)
Prepare ==
    /\ pc = "ready"
    /\ ~prepared
    /\ batch # <<>>
    /\ batch' = validate_and_prepare(batch, schema)
    /\ prepared' = TRUE
    /\ UNCHANGED <<schema, pc, impl, server, body, sent, log, ret, exc,
                   sink, conn, endpoint, previous>>

\* mutant: the batch of a failed delivery is kept and sent again with the next
WriteBatchAzureAiSearch_requeue ==
    /\ pc = "ready"
    /\ ~prepared
    /\ \E srv \in Servers :
          Finish("azure_ai_search", srv,
                 write_batch(IF previous.failed THEN previous.batch \o batch ELSE batch,
                             schema, srv))

\* a sink built from bytewax.azure_ai_search is handed a batch
WriteBatchAzureAiSearch ==
    /\ pc = "ready"
    /\ ~prepared
    /\ \E srv \in Servers : Finish("azure_ai_search", srv, write_batch(batch, schema, srv))

\* a sink built from bytewax.bytewax_azure_ai_search is handed a list of
\* stream items: documents in a dataflow of the user's, the (key, batch)
\* tuple of Prepare in azure_output
WriteBatchBytewaxAzureAiSearch ==
    /\ pc = "ready"
    /\ \E srv \in Servers :
          Finish("bytewax_azure_ai_search", srv,
                 IF prepared
                 THEN write_batch_of_keyed_items(<< KeyedItem("k", batch) >>, schema, srv)
                 ELSE write_batch_bytewax_azure_ai_search(batch, schema, srv))

\* the sink of bytewax-azure-ai-search/sink.py is handed a batch
WriteBatchPartition ==
    /\ pc = "ready"
    /\ ~prepared
    /\ Finish("partition", NoServer, write_batch_partition(batch))

Next ==
    \/ Prepare
    \/ WriteBatchAzureAiSearch
    \/ WriteBatchBytewaxAzureAiSearch
    \/ WriteBatchPartition

Spec == Init /\ [][Next]_vars

(* ------------------- one partition, batch after batch ------------------ *)

\* write_batch has returned and the runtime hands the partition its next
\* batch: the locals of the finished call are gone, and only what the
\* partition keeps (schema, conn) goes on; previous records the finished call
NextCall ==
    /\ pc = "returned"
    /\ ~prepared
    /\ previous' = [batch |-> batch, failed |-> requests_post(server, 1) # "200"]
    /\ batch' \in CallBatches
    /\ pc' = "ready"
    /\ impl' = "none"
    /\ server' = NoServer
    /\ body' = <<>>
    /\ sent' = <<>>
    /\ log' = <<>>
    /\ ret' = "unset"
    /\ exc' = "none"
    /\ endpoint' = NoRequest
    /\ UNCHANGED <<schema, prepared, sink, conn>>

InitCalls == Init /\ batch \in CallBatches

NextCalls ==
    \/ WriteBatchAzureAiSearch
    \/ NextCall

SpecCalls == InitCalls /\ [][NextCalls]_vars

(* --------------------------- claim vocabulary ------------------------- *)

Declared(name) == \E i \in DOMAIN schema : schema[i].name = name

SchemaNames == [i \in DOMAIN schema |-> schema[i].name]

\* a 'string' field holding a non-string or a 'collection' field holding a non-list
WrongTyped(d) ==
    \E i \in DOMAIN schema :
        /\ Has(d, schema[i].name)
        /\ \/ schema[i].type = "string" /\ Get(d, schema[i].name, None).kind # "str"
           \/ schema[i].type = "collection" /\ Get(d, schema[i].name, None).kind # "list"

WellTyped(d) == ~WrongTyped(d)

\* a 'collection' field holding a list with an element that is no number
NonNumericCollection(d) ==
    \E i \in DOMAIN schema :
        /\ schema[i].type = "collection"
        /\ Has(d, schema[i].name)
        /\ Get(d, schema[i].name, None).kind = "list"
        /\ \E e \in DOMAIN Get(d, schema[i].name, None).elems :
              Get(d, schema[i].name, None).elems[e].kind # "num"

NumericTyped(d) == WellTyped(d) /\ ~NonNumericCollection(d)

Kept == SelectSeq(batch, WellTyped)

Dropped == SelectSeq(batch, WrongTyped)

AllValid == \A i \in DOMAIN batch : WellTyped(batch[i])

IsInvalidDocument(l) == l.level = "error" /\ l.msg = "Invalid document"

IsResponseContent(l) == l.level = "error" /\ l.msg = "Response content"

IsUploaded(l) == l.level = "info" /\ l.msg = "Document uploaded successfully"

\* the documents the validation errors were reported for, in order
ReportedInvalid == [i \in DOMAIN SelectSeq(log, IsInvalidDocument) |->
                        SelectSeq(log, IsInvalidDocument)[i].doc]

\* the response bodies the call reported as its failure
ReportedFailure ==
    IF impl = "azure_ai_search"
    THEN [i \in DOMAIN SelectSeq(log, IsResponseContent) |->
              SelectSeq(log, IsResponseContent)[i].text]
    ELSE IF ret \in {"unset", "success", "None"} THEN <<>> ELSE << ret >>

Succeeded ==
    /\ exc = "none"
    /\ IF impl = "azure_ai_search" THEN SelectSeq(log, IsUploaded) # <<>> ELSE ret = "success"

\* the ids of a sequence of documents (the documents of the model differ in id)
Ids(docs) == [i \in DOMAIN docs |-> Get(docs[i], "id", None)]

\* the record the k-th emitted document was built from
Source(k) == IF impl = "azure_ai_search" THEN Kept[k] ELSE batch[k]

Posted == sent # <<>>

\* a value json.loads(json.dumps(v)) gives back as v: no tuple, nothing unwritable
RECURSIVE JsonNative(_)
JsonNative(value) ==
    /\ value.kind \notin {"tuple", "object"}
    /\ \A i \in DOMAIN value.elems : JsonNative(value.elems[i])

AllJsonNative ==
    \A n \in DOMAIN batch : \A m \in DOMAIN batch[n] : JsonNative(batch[n][m].v)

(* -------------------------------- C1 ---------------------------------- *)

\* C1: write_batch of azure_ai_search leaves out of the request body exactly
\* the documents that hold a non-string in a 'string' field or a non-list in
\* a 'collection' field; the others are in it in their original order, each
\* with the values it supplies, and one validation error is reported per
\* document left out.
C1_InvalidDocumentsExcluded ==
    impl = "azure_ai_search" =>
        /\ Len(body) = Len(Kept)
        /\ \A k \in DOMAIN body : \A i \in DOMAIN schema :
              Has(Kept[k], schema[i].name) =>
                 Get(body[k], schema[i].name, Obj) = Get(Kept[k], schema[i].name, None)
        /\ ReportedInvalid = Dropped
        /\ Posted => /\ Len(sent) = 1
                     /\ sent[1] = json_dumps(body).text
                     /\ Ids(json_loads(sent[1])) = Ids(Kept)

\* three records, the second with a string in its vector field: records 1
\* and 3 are posted and one validation error is reported
C1_Witness ==
    /\ impl = "azure_ai_search"
    /\ schema = SchemaDoc
    /\ Len(batch) = 3
    /\ WellTyped(batch[1]) /\ batch[2] = DocVectorStr /\ WellTyped(batch[3])
    /\ Posted
    /\ Ids(json_loads(sent[1])) = << Get(batch[1], "id", None), Get(batch[3], "id", None) >>
    /\ ReportedInvalid = << batch[2] >>

(* -------------------------------- C2 ---------------------------------- *)

\* C2: the document emitted for a record that lacks a schema field carries
\* that field with the default the schema declares for it, whatever the
\* field's name and type.
C2_MissingFieldGetsDeclaredDefault ==
    (impl \in {"azure_ai_search", "bytewax_azure_ai_search"} /\ exc # "AttributeError") =>
        \A k \in DOMAIN body : \A i \in DOMAIN schema :
            ~Has(Source(k), schema[i].name) =>
                /\ Has(body[k], schema[i].name)
                /\ Get(body[k], schema[i].name, Obj) = schema[i].default

(* -------------------------------- C4 ---------------------------------- *)

\* C4: when the endpoint answers the upload with HTTP 400, write_batch has
\* made exactly one POST and reports a failure that carries the response
\* body as the endpoint sent it.
C4_ClientErrorReportedOnce ==
    (Posted /\ server.failFirst >= 1 /\ server.failKind = "400") =>
        /\ Len(sent) = 1
        /\ exc = "none"
        /\ ~Succeeded
        /\ ReportedFailure = << "body-of-400" >>

C4_Witness ==
    /\ impl = "bytewax_azure_ai_search"
    /\ Posted
    /\ server.failFirst >= 1 /\ server.failKind = "400"
    /\ ret = "body-of-400"

(* -------------------------------- C5 ---------------------------------- *)

\* C5 as claimed: an endpoint that answers 503 three times and then 200 ends
\* with a successful batch after exactly 4 POSTs.
C5_RetriedUntilSuccess ==
    (Posted /\ server = [failFirst |-> 3, failKind |-> "503"]) =>
        /\ Len(sent) = 4
        /\ Succeeded

\* C5 as amended: a batch answered with a 5xx status or hit by a transport
\* failure is never sent again; write_batch has made exactly one POST and
\* the batch has not succeeded, and a 503 is reported with its response body.
C5_TransientFailureNotRetried ==
    (Posted /\ server.failFirst >= 1 /\ server.failKind \in {"503", "ConnectionError"}) =>
        /\ Len(sent) = 1
        /\ ~Succeeded
        /\ server.failKind = "503" =>
              exc = "none" /\ ReportedFailure = << "body-of-503" >>

C5_Witness ==
    /\ impl = "azure_ai_search"
    /\ server = [failFirst |-> 3, failKind |-> "503"]
    /\ Posted
    /\ Len(sent) = 1
    /\ ReportedFailure = << "body-of-503" >>

(* -------------------------------- C6 ---------------------------------- *)

\* C6: whatever the POST ends with, a response or a transport error,
\* write_batch returns normally and a failed delivery is reported.
C6_DeliveryFailureNeverEscapes ==
    Posted =>
        /\ exc = "none"
        /\ pc = "returned"
        /\ server.failFirst >= 1 => ReportedFailure # <<>>

(* -------------------------------- C7 ---------------------------------- *)

\* C7: decoding the posted body of a batch of valid documents gives one
\* entry per document in batch order, each tagged "upload", with the value
\* the document supplies for every schema field, its fields in schema order
\* (stated for the batches whose values JSON reads back unchanged).
C7_WireRoundTrip ==
    (Posted /\ AllValid /\ AllJsonNative) =>
        LET decoded == json_loads(sent[1])
        IN  /\ Len(decoded) = Len(batch)
            /\ \A k \in DOMAIN decoded :
                  /\ k \in DOMAIN batch
                  /\ Get(decoded[k], "@search.action", None) = Str("upload")
                  /\ Keys(decoded[k]) = << "@search.action" >> \o SchemaNames
                  /\ \A i \in DOMAIN schema :
                        Has(batch[k], schema[i].name) =>
                           Get(decoded[k], schema[i].name, Obj)
                              = Get(batch[k], schema[i].name, None)

(* -------------------------------- C8 ---------------------------------- *)

\* C8: a batch of N >= 1 valid documents is delivered in one call whose
\* body holds N entries, one per document.
C8_WholeBatchInOneCall ==
    (Posted /\ AllValid /\ Len(batch) >= 1) =>
        /\ Len(sent) = 1
        /\ Len(json_loads(sent[1])) = Len(batch)
        /\ Ids(json_loads(sent[1])) = Ids(batch)

(* -------------------------------- C9 ---------------------------------- *)

\* C9 as claimed: a record whose 'collection' field is a list with a
\* non-numeric element fails validation and is not in the delivered batch.
C9_NonNumericVectorRejected ==
    impl = "azure_ai_search" => Ids(body) = Ids(SelectSeq(batch, NumericTyped))

\* C9 as amended: a 'collection' value is accepted if and only if it is a
\* list, whatever its elements; among the records whose 'string' fields hold
\* strings, exactly those with a non-list in a 'collection' field are left
\* out, and a record whose 'collection' field is a list of strings is kept.
C9_CollectionAcceptedIffList ==
    impl = "azure_ai_search" =>
        \A n \in DOMAIN batch :
            (\A i \in DOMAIN schema :
                (schema[i].type = "string" /\ Has(batch[n], schema[i].name)) =>
                    Get(batch[n], schema[i].name, None).kind = "str")
            => ( (\E k \in DOMAIN body : Ids(body)[k] = Ids(batch)[n])
                 <=> \A i \in DOMAIN schema :
                        (schema[i].type = "collection" /\ Has(batch[n], schema[i].name))
                            => Get(batch[n], schema[i].name, None).kind = "list" )

C9_Witness ==
    /\ impl = "azure_ai_search"
    /\ Posted
    /\ \E n \in DOMAIN batch :
          /\ NonNumericCollection(batch[n])
          /\ \E k \in DOMAIN sent[1] : Ids(json_loads(sent[1]))[k] = Ids(batch)[n]

(* -------------------------------- C10 --------------------------------- *)

\* C10 as claimed: a field the record carries and the schema does not
\* declare is in the emitted document with the same value.
C10_UndeclaredFieldsPassThrough ==
    (impl \in {"azure_ai_search", "bytewax_azure_ai_search"} /\ exc # "AttributeError") =>
        \A k \in DOMAIN body : \A m \in DOMAIN Source(k) :
            ~Declared(Source(k)[m].k) =>
                /\ Has(body[k], Source(k)[m].k)
                /\ Get(body[k], Source(k)[m].k, Obj) = Source(k)[m].v

\* C10 as amended: a field the record carries and the schema does not
\* declare is dropped; every emitted document holds "@search.action" and the
\* schema's fields, in schema order, and nothing else, and no option changes it.
C10_UndeclaredFieldsDropped ==
    (impl \in {"azure_ai_search", "bytewax_azure_ai_search"} /\ exc # "AttributeError") =>
        /\ \A k \in DOMAIN body : Keys(body[k]) = << "@search.action" >> \o SchemaNames
        /\ Posted => \A k \in DOMAIN sent[1] :
                        Keys(json_loads(sent[1])[k]) = << "@search.action" >> \o SchemaNames

C10_Witness ==
    /\ impl = "azure_ai_search"
    /\ Posted
    /\ \E k \in DOMAIN body : \E m \in DOMAIN Source(k) :
          /\ ~Declared(Source(k)[m].k)
          /\ ~Has(json_loads(sent[1])[k], Source(k)[m].k)

(* -------------------------------- C11 --------------------------------- *)

\* a value json.dumps can write: nothing unwritable at any depth
RECURSIVE Writable(_)
Writable(value) ==
    /\ value.kind # "object"
    /\ \A i \in DOMAIN value.elems : Writable(value.elems[i])

\* a document that passes validation supplies, for a schema field, a value
\* json cannot write
KeptHoldsUnwritable ==
    \E n \in DOMAIN Kept : \E i \in DOMAIN schema :
        /\ Has(Kept[n], schema[i].name)
        /\ ~Writable(Get(Kept[n], schema[i].name, None))

\* C11: when a document passes validation and holds a value that cannot be
\* written as JSON, write_batch does not raise: the call returns, no request
\* is sent for the batch and a failure is reported for it.
C11_EncodeFailureContained ==
    (impl = "azure_ai_search" /\ KeptHoldsUnwritable) =>
        /\ exc = "none"
        /\ pc = "returned"
        /\ sent = <<>>
        /\ \E l \in DOMAIN log : log[l].level = "error" /\ ~IsInvalidDocument(log[l])

(* -------------------------------- C14 --------------------------------- *)

C12_NoRecordLost ==
    (prepared /\ pc # "ready") =>
        \A n \in DOMAIN batch :
            \E p \in DOMAIN sent : \E k \in DOMAIN sent[p] :
                Ids(json_loads(sent[p]))[k] = Ids(batch)[n]

(* -------------------------------- C13 --------------------------------- *)

\* C13: over any sequence of write_batch calls on one partition of
\* azure_ai_search, whether the deliveries before succeeded or failed, the
\* request body of a call holds only documents of the batch passed to that
\* call (those that pass validation, in order), nothing of an earlier batch
\* is sent again, and the partition still has the schema and the connection
\* parameters it was built with, which every request is addressed with.
C13_NoStateAcrossCalls ==
    /\ schema = sink.schema
    /\ conn = sink.conn
    /\ impl = "azure_ai_search" =>
          /\ Len(sent) <= 1
          /\ \A p \in DOMAIN sent :
                /\ Ids(json_loads(sent[p])) = Ids(Kept)
                /\ \A k \in DOMAIN sent[p] : \E n \in DOMAIN batch :
                      Ids(json_loads(sent[p]))[k] = Ids(batch)[n]
          /\ Posted => endpoint = [url |-> search_endpoint(sink.conn),
                                   headers |-> headers(sink.conn)]

\* a delivery failed, and the next call posts a body without the documents
\* of the failed batch
C13_Witness ==
    /\ previous.failed
    /\ impl = "azure_ai_search"
    /\ Posted
    /\ sent[1] # <<>>
    /\ \E n \in DOMAIN previous.batch :
          /\ WellTyped(previous.batch[n])
          /\ \A k \in DOMAIN sent[1] :
                Ids(json_loads(sent[1]))[k] # Ids(previous.batch)[n]

====
